---- MODULE Spec2Model ----
(***************************************************************************)
(* Model of the forgotten-girl orchestrator (src/app/orchestrator.py).     *)
(*                                                                         *)
(* Numbers: every float of the program (probabilities, rolls, scores,      *)
(* weights) is kept as an integer number of hundredths, so 0.2 is 20 and   *)
(* 1.0 is 100.  Strings: the Chinese message texts are written as ASCII    *)
(* texts; f-strings are built with \o and ToString as the code builds      *)
(* them.  Optional values: None is the string "None" for Optional[str],    *)
(* the empty sequence for Optional[int] and Optional[object] (<<v>> is a   *)
(* present value).  An empty dict is the empty sequence.                   *)
(*                                                                         *)
(* sha256 is an uninterpreted function.  Its value on a given input is     *)
(* chosen the first time the program asks for it and is remembered in      *)
(* digest_roll (the first 8 bytes / 2^64) and digest_mod (the integer      *)
(* prefix mod 10000), so that the same input always gives the same value.  *)
(***************************************************************************)
EXTENDS Integers, Sequences, FiniteSets, TLC

(* ------------------------------ bounds -------------------------------- *)

\* number of entry-point calls explored in one behaviour
MaxCalls == 4

\* length of the lists select_weighted is applied to
MaxItems == 3

\* exposure counts roll_with_pity is applied to
MaxExposures == 4

(* ------------------------------ inputs -------------------------------- *)

None == "None"

Locations == {"L1", "L2"}
TimeSlots == {"morning"}
\* "event_flow" is the default stage_id of action_select, "chat" of chat
ActionStages == {"event_flow", "stage2"}
ChatStages == {"chat"}

\* values of int.from_bytes(sha256(str(seed))[:8]) / 2**64, in hundredths
RollValues == {20, 40, 90}
\* values of seed % 10_000
SeedMods == {0, 9999}

session_id == "sid"

\* values of base_weight, in hundredths
Weights == {0, 50, 100}
\* values of the seed of select_weighted
Seeds == {0, 1, 2500, 9999, 10000, 15000}
\* values of p0, dp and p_max, in hundredths
Probabilities == {0, 20, 85, 100}
Increments == {0, 15, 50}

(* ------------------------------ helpers ------------------------------- *)

Min(a, b) == IF a <= b THEN a ELSE b
Max(a, b) == IF a >= b THEN a ELSE b

\* dict.get(key, default)
Get(map, key, default) == IF key \in DOMAIN map THEN map[key] ELSE default

\* dict[key] = value
Put(map, key, value) == [k \in (DOMAIN map) \cup {key} |-> IF k = key THEN value ELSE map[k]]

RECURSIVE SumSeq(_)
SumSeq(s) == IF s = <<>> THEN 0 ELSE Head(s) + SumSeq(Tail(s))

RECURSIVE Join(_)
\* "|".join(parts), the parts being strings already
Join(parts) ==
  IF Len(parts) = 0 THEN ""
  ELSE IF Len(parts) = 1 THEN parts[1]
  ELSE parts[1] \o "|" \o Join(Tail(parts))

\* Python's max(list, key=...): the index of the first element of maximal key
ArgMaxFirst(keys) ==
  CHOOSE i \in 1..Len(keys) :
    /\ \A j \in 1..Len(keys) : keys[j] <= keys[i]
    /\ \A j \in 1..(i - 1) : keys[j] < keys[i]

\* the indices of s whose element satisfies Test, in list order
FilterIdx(s, Test(_)) ==
  LET F[i \in 0..Len(s)] ==
        IF i = 0 THEN <<>>
        ELSE IF Test(s[i]) THEN Append(F[i - 1], i) ELSE F[i - 1]
  IN F[Len(s)]

Message(role, text, kind, options) ==
  [role |-> role, content |-> text, kind |-> kind, options |-> options]

(* --------------------------- pure functions --------------------------- *)

\* the string whose sha256 digest is the seed
stable_seed(parts) == Join(parts)

\* the probability without its ceiling
roll_with_pity_uncapped(p0, dp, p_max, exposures, roll) ==
  [success |-> roll <= p0 + exposures * dp,
   roll |-> roll,
   probability |-> p0 + exposures * dp]

roll_with_pity(p0, dp, p_max, exposures, roll) ==
  [success |-> roll <= Min(p_max, p0 + exposures * dp),
   roll |-> roll,
   probability |-> Min(p_max, p0 + exposures * dp)]

\* the loop with > in place of >=
FirstReaching_strict(weights, total, seed_mod) ==
  LET hits == {i \in 1..Len(weights) :
                 SumSeq(SubSeq(weights, 1, i)) * 10000 > seed_mod * total}
  IN IF hits = {} THEN Len(weights) ELSE CHOOSE i \in hits : \A j \in hits : i <= j

\* the loop over cumulative weights: the index of the first item whose
\* cumulative weight is >= (seed_mod / 10000) * total, the last index if there
\* is none.  Both sides of the comparison are multiplied by 10000.
FirstReaching(weights, total, seed_mod) ==
  LET hits == {i \in 1..Len(weights) :
                 SumSeq(SubSeq(weights, 1, i)) * 10000 >= seed_mod * total}
  IN IF hits = {} THEN Len(weights) ELSE CHOOSE i \in hits : \A j \in hits : i <= j

\* select_weighted from the computation of total on
SelectAmong(items, weights, seed_mod) ==
  IF SumSeq(weights) <= 0 THEN <<items[1]>>
  ELSE <<items[FirstReaching(weights, SumSeq(weights), seed_mod)]>>

\* seed_mod is seed % 10_000; the result is <<>> (None) or <<item>>
select_weighted(items, seed_mod) ==
  IF items = << >> THEN << >>
  ELSE SelectAmong(items, [i \in 1..Len(items) |-> items[i].base_weight], seed_mod)

(* ------------------------ configuration, content ---------------------- *)

\* config/*.yaml as load_config returns it
ConfigBundle(days_per_run, max_runs, fragment_cap, proactive_cap, ap) ==
  [run |-> [days_per_run |-> days_per_run, max_runs |-> max_runs],
   resources |-> [ap |-> ap, chat_turns |-> 2, key_q |-> 1, npc_initiative |-> 1],
   caps |-> [daily_fragment_cap |-> fragment_cap, daily_proactive_cap |-> proactive_cap],
   pity |-> [fragment |-> [p0 |-> 20, dp |-> 15, p_max |-> 85]]]

\* content/events/*.json: one event at L1, none at L2.  Its first fragment hook
\* has no trigger hint, so that the fragment made of it takes the location of
\* the context at day end.
Events ==
  << [event_id |-> "e1", location |-> "L1", time_slot |-> "morning", base_weight |-> 100,
      intro |-> "e1 intro", outro |-> "e1 outro",
      choice_points |-> << [options |-> <<"look", "leave">>], [options |-> <<"wait">>] >>,
      fragment_hooks |-> << [anchor |-> "bell", emotion_tag |-> "sad", base_score |-> 50,
                             reveal_level |-> 2, trigger_hint |-> << >>],
                            [anchor |-> "key", emotion_tag |-> "neutral", base_score |-> 20,
                             reveal_level |-> 1,
                             trigger_hint |-> <<[kind |-> "location", value |-> "L2"]>>] >>] >>

\* content/hooks/*.json; a condition that is "" or 0 is not specified
Hooks ==
  << [hook_id |-> "h1", kind |-> "soft",
      conditions |-> [location |-> "L2", time_slot |-> "", min_day |-> 0, max_day |-> 0],
      p0 |-> 20, dp |-> 10, p_max |-> 70, base_weight |-> 100, cooldown_days |-> 1,
      payload_template |-> [text |-> "h1 text", options |-> <<"reply">>]],
     [hook_id |-> "h2", kind |-> "hard",
      conditions |-> [location |-> "L2", time_slot |-> "morning", min_day |-> 2, max_day |-> 2],
      p0 |-> 20, dp |-> 10, p_max |-> 70, base_weight |-> 100, cooldown_days |-> 0,
      payload_template |-> [text |-> "h2 text", options |-> << >>]] >>

\* content/endings/*.json
NoEndings == << >>
TwoEndings ==
  << [scenes |-> <<"scene one", "scene two">>], [scenes |-> <<"other ending">>] >>

ContentBundle(endings) == [events |-> Events, hooks |-> Hooks, endings |-> endings]

\* the configurations and contents a session is started with: every pair of
\* values of days_per_run and max_runs in {1, 2}, caps that are zero and caps
\* that are not, with and without authored endings
Setups ==
  { [config |-> ConfigBundle(2, 2, 2, 1, 3), content |-> ContentBundle(TwoEndings)],
    [config |-> ConfigBundle(1, 2, 1, 0, 3), content |-> ContentBundle(NoEndings)],
    [config |-> ConfigBundle(2, 1, 0, 1, 3), content |-> ContentBundle(TwoEndings)],
    [config |-> ConfigBundle(1, 1, 0, 0, 3), content |-> ContentBundle(NoEndings)] }

(* ------------------------------- models ------------------------------- *)

RUNNING == "RUNNING"
RUN_END == "RUN_END"
FINAL_END == "FINAL_END"
ENDED == "ENDED"
GamePhase == {RUNNING, RUN_END, FINAL_END, ENDED}

CurrentContext ==
  [event_id |-> None, location |-> None, time_slot |-> None, stage_id |-> None]

\* the fields of GameState the orchestrator reads or writes
create_initial_state(cfg) ==
  [session_id |-> session_id,
   game_phase |-> RUNNING,
   run_index |-> 1,
   max_runs |-> cfg.run.max_runs,
   day_index |-> 1,
   run_seed |-> stable_seed(<<session_id, "run_seed">>),
   resources |-> cfg.resources,
   caps |-> cfg.caps,
   current_context |-> CurrentContext,
   fragments_active |-> << >>,
   deep_fragments |-> << >>,
   fragment_candidates_today |-> << >>,
   proactive_state |-> [hook_exposures |-> << >>, hook_cooldowns |-> << >>],
   pending_npc_messages |-> << >>,
   trace_log |-> << >>,
   daily_fragment_count |-> 0,
   daily_proactive_count |-> 0,
   event_history |-> << >>]

(* ------------------------------ day_start ----------------------------- *)

day_start(st, cfg) ==
  [state |-> [st EXCEPT !.resources = cfg.resources,
                        !.daily_fragment_count = 0,
                        !.daily_proactive_count = 0,
                        !.current_context = CurrentContext],
   messages |-> << Message("system", "day " \o ToString(st.day_index) \o " starts", "day_start", << >>) >>]

(* --------------------------- fragment engine -------------------------- *)

\* max(state.fragment_candidates_today, key=score)
BestCandidate(candidates) ==
  candidates[ArgMaxFirst([i \in 1..Len(candidates) |-> candidates[i].score])]

\* state.current_context.location or ""
ContextLocation(st) ==
  IF st.current_context.location = None THEN "" ELSE st.current_context.location

\* best.trigger_hint or {"kind": "location", "value": ...}
TriggerHint(best, st) ==
  IF best.trigger_hint = << >>
  THEN [kind |-> "location", value |-> ContextLocation(st)]
  ELSE best.trigger_hint[1]

FragmentId(st) ==
  "fragment_" \o ToString(st.run_index) \o "_" \o ToString(st.day_index)
    \o "_" \o ToString(Len(st.fragments_active) + 1)

\* the Fragment that pick_fragment returns for the candidate best
PromotedFragment(st, pity_defaults, best) ==
  [fragment_id |-> FragmentId(st),
   day_created |-> st.day_index,
   run_created |-> st.run_index,
   anchor |-> best.anchor,
   emotion_tag |-> best.emotion_tag,
   salience_score |-> best.score,
   reveal_level |-> best.reveal_level,
   trigger |-> [kind |-> TriggerHint(best, st).kind, value |-> TriggerHint(best, st).value],
   trigger_state |-> [exposures |-> 0,
                      p0 |-> pity_defaults.p0,
                      dp |-> pity_defaults.dp,
                      p_max |-> pity_defaults.p_max,
                      last_check_day |-> << >>,
                      last_check_stage |-> None,
                      cooldown_until_day |-> 0],
   one_shot |-> TRUE,
   consumed |-> FALSE]

\* the result is <<>> (None) or <<fragment>>
pick_fragment(st, cfg) ==
  IF st.fragment_candidates_today = << >> THEN << >>
  ELSE << PromotedFragment(st, cfg.pity.fragment, BestCandidate(st.fragment_candidates_today)) >>

\* the cap test written with > in place of >=
FragmentCapReached_strict(st) == st.daily_fragment_count > st.caps.daily_fragment_cap

\* the first test of fragment_trigger_check
FragmentCapReached(st) == st.daily_fragment_count >= st.caps.daily_fragment_cap

\* the condition without its test of consumed
FragmentEligible_consumed(fragment, st, location) ==
  /\ fragment.trigger.kind = "location"
  /\ fragment.trigger.value = location
  /\ fragment.trigger_state.cooldown_until_day <= st.day_index

\* the condition of the list comprehension of fragment_trigger_check
FragmentEligible(fragment, st, location) ==
  /\ ~fragment.consumed
  /\ fragment.trigger.kind = "location"
  /\ fragment.trigger.value = location
  /\ fragment.trigger_state.cooldown_until_day <= st.day_index

\* the list comprehension of fragment_trigger_check, as indices of fragments_active
EligibleFragments(st, location) ==
  LET Ok(fragment) == FragmentEligible(fragment, st, location)
  IN FilterIdx(st.fragments_active, Ok)

\* max(eligible, key=salience_score + exposures * 0.1), as an index of fragments_active
BestFragment(st, eligible) ==
  eligible[ArgMaxFirst([j \in 1..Len(eligible) |->
                          st.fragments_active[eligible[j]].salience_score
                            + st.fragments_active[eligible[j]].trigger_state.exposures * 10])]

\* last_day == state.day_index and last_stage == stage_id
AlreadyChecked(trigger_state, day_index, stage_id) ==
  trigger_state.last_check_day = <<day_index>> /\ trigger_state.last_check_stage = stage_id

FragmentSeed(st, stage_id, fragment_id) ==
  stable_seed(<<st.session_id, ToString(st.run_index), ToString(st.day_index), stage_id, fragment_id>>)

MicroLines == <<"micro line 1", "micro line 2", "micro line 3">>

\* a result of fragment_trigger_check: the state after the call, the returned
\* message (<<>> for None) and the seed rolled (<<>> if none)
FragmentSkip(st) == [state |-> st, message |-> << >>, seed |-> << >>]

\* the state once the check of fragment i is recorded and traced
FragmentChecked(st, i, stage_id, result) ==
  [st EXCEPT !.fragments_active[i].trigger_state.last_check_day = <<st.day_index>>,
             !.fragments_active[i].trigger_state.last_check_stage = stage_id,
             !.trace_log = Append(@, [kind |-> "fragment_roll",
                                      fragment_id |-> st.fragments_active[i].fragment_id,
                                      probability |-> result.probability,
                                      roll |-> result.roll,
                                      success |-> result.success,
                                      exposures |-> st.fragments_active[i].trigger_state.exposures,
                                      stage_id |-> stage_id])]

\* the branch of a successful roll without the reset of exposures
FragmentFired_stale(checked, i) ==
  [checked EXCEPT !.fragments_active[i].consumed = checked.fragments_active[i].one_shot,
                  !.daily_fragment_count = @ + 1]

\* the branch of a successful roll; checked is the state FragmentChecked gives
FragmentFired(checked, i) ==
  [checked EXCEPT !.fragments_active[i].trigger_state.exposures = 0,
                  !.fragments_active[i].consumed = checked.fragments_active[i].one_shot,
                  !.daily_fragment_count = @ + 1]

\* the branch of a failed roll
FragmentEscalated(checked, i) ==
  [checked EXCEPT !.fragments_active[i].trigger_state.exposures = @ + 1]

\* fragment_trigger_check from the roll on
FragmentRolled(st, i, stage_id, seed, result) ==
  IF result.success
  THEN [state |-> FragmentFired(FragmentChecked(st, i, stage_id, result), i),
        message |-> << Message("narrator", "she touches " \o st.fragments_active[i].anchor,
                               "fragment_event", << >>) >>,
        seed |-> <<seed>>]
  ELSE [state |-> FragmentEscalated(FragmentChecked(st, i, stage_id, result), i),
        message |-> << Message("narrator",
                               MicroLines[Min(st.fragments_active[i].trigger_state.exposures + 1, 3)],
                               "micro_flashback", << >>) >>,
        seed |-> <<seed>>]

\* fragment_trigger_check once the fragment, of index i, is chosen
FragmentCheckOn(st, i, stage_id, roll) ==
  IF AlreadyChecked(st.fragments_active[i].trigger_state, st.day_index, stage_id)
  THEN FragmentSkip(st)
  ELSE FragmentRolled(st, i, stage_id,
                      FragmentSeed(st, stage_id, st.fragments_active[i].fragment_id),
                      roll_with_pity(st.fragments_active[i].trigger_state.p0,
                                     st.fragments_active[i].trigger_state.dp,
                                     st.fragments_active[i].trigger_state.p_max,
                                     st.fragments_active[i].trigger_state.exposures,
                                     roll))

\* fragment_trigger_check once the eligible fragments are listed
FragmentCheckAmong(st, eligible, stage_id, roll) ==
  IF eligible = << >> THEN FragmentSkip(st)
  ELSE FragmentCheckOn(st, BestFragment(st, eligible), stage_id, roll)

\* roll is the digest value of the seed
fragment_trigger_check(st, location, stage_id, roll) ==
  IF FragmentCapReached(st) THEN FragmentSkip(st)
  ELSE FragmentCheckAmong(st, EligibleFragments(st, location), stage_id, roll)

(* --------------------------- proactive engine ------------------------- *)

hook_matches_conditions(hook, st) ==
  IF hook.conditions.location # ""
       /\ hook.conditions.location # st.current_context.location THEN FALSE
  ELSE IF hook.conditions.time_slot # ""
            /\ hook.conditions.time_slot # st.current_context.time_slot THEN FALSE
  ELSE IF hook.conditions.min_day # 0 /\ st.day_index < hook.conditions.min_day THEN FALSE
  ELSE IF hook.conditions.max_day # 0 /\ st.day_index > hook.conditions.max_day THEN FALSE
  ELSE TRUE

\* the condition without its test of the cooldown
HookEligible_nocooldown(hook, st) == hook_matches_conditions(hook, st)

\* the condition of the list comprehension of proactive_check
HookEligible(hook, st) ==
  /\ hook_matches_conditions(hook, st)
  /\ Get(st.proactive_state.hook_cooldowns, hook.hook_id, 0) <= st.day_index

\* the list comprehension of proactive_check
EligibleHooks(st, content) ==
  LET Ok(hook) == HookEligible(hook, st)
  IN SelectSeq(content.hooks, Ok)

HookSelectSeed(st, stage_id) ==
  stable_seed(<<st.session_id, ToString(st.run_index), ToString(st.day_index), stage_id, "hook_select">>)

HookSeed(st, stage_id, hook_id) ==
  stable_seed(<<st.session_id, ToString(st.run_index), ToString(st.day_index), stage_id, hook_id>>)

\* max(base_weight + exposure * 0.2, 0.1) of each eligible hook
HookWeights(eligible, st) ==
  [i \in 1..Len(eligible) |->
     Max(eligible[i].base_weight
           + Get(st.proactive_state.hook_exposures, eligible[i].hook_id, 0) * 20, 10)]

\* select_hook from the computation of total on
SelectHookAmong(eligible, weights, seed_mod) ==
  IF SumSeq(weights) <= 0 THEN << >>
  ELSE <<eligible[FirstReaching(weights, SumSeq(weights), seed_mod)]>>

\* eligible is a list of hooks; the result is <<>> (None) or <<hook>>
select_hook(eligible, st, stage_id, seed_mod) ==
  SelectHookAmong(eligible, HookWeights(eligible, st), seed_mod)

\* a result of proactive_check: the state after the call, the returned list and
\* the seeds used (<<>> if not used)
ProactiveSkip(st) ==
  [state |-> st, messages |-> << >>, select_seed |-> << >>, seed |-> << >>]

\* the trace entry written over the log instead of appended to it
HookTraced_rewrite(st, hook, exposures, stage_id, result) ==
  [st EXCEPT !.trace_log = << [kind |-> "proactive_roll",
                               hook_id |-> hook.hook_id,
                               probability |-> result.probability,
                               roll |-> result.roll,
                               success |-> result.success,
                               exposures |-> exposures,
                               stage_id |-> stage_id] >>]

HookTraced(st, hook, exposures, stage_id, result) ==
  [st EXCEPT !.trace_log = Append(@, [kind |-> "proactive_roll",
                                      hook_id |-> hook.hook_id,
                                      probability |-> result.probability,
                                      roll |-> result.roll,
                                      success |-> result.success,
                                      exposures |-> exposures,
                                      stage_id |-> stage_id])]

\* the branch of a failed roll; traced is the state HookTraced gives
HookFailed(traced, hook, exposures) ==
  [traced EXCEPT !.proactive_state.hook_exposures = Put(@, hook.hook_id, exposures + 1)]

\* the branch of a successful roll with the cooldown set to the current day
HookSucceeded_today(traced, hook) ==
  [traced EXCEPT !.proactive_state.hook_exposures = Put(@, hook.hook_id, 0),
                 !.proactive_state.hook_cooldowns = Put(@, hook.hook_id, traced.day_index),
                 !.resources.npc_initiative = @ - 1,
                 !.daily_proactive_count = @ + 1,
                 !.pending_npc_messages =
                    Append(@, Message("npc", hook.payload_template.text,
                                      "proactive_" \o hook.kind,
                                      hook.payload_template.options))]

\* the branch of a successful roll
HookSucceeded(traced, hook) ==
  [traced EXCEPT !.proactive_state.hook_exposures = Put(@, hook.hook_id, 0),
                 !.proactive_state.hook_cooldowns =
                    Put(@, hook.hook_id, traced.day_index + hook.cooldown_days),
                 !.resources.npc_initiative = @ - 1,
                 !.daily_proactive_count = @ + 1,
                 !.pending_npc_messages =
                    Append(@, Message("npc", hook.payload_template.text,
                                      "proactive_" \o hook.kind,
                                      hook.payload_template.options))]

\* proactive_check from the roll on
ProactiveRolled(st, hook, exposures, select_seed, stage_id, result) ==
  [state |-> IF ~result.success
             THEN HookFailed(HookTraced(st, hook, exposures, stage_id, result), hook, exposures)
             ELSE HookSucceeded(HookTraced(st, hook, exposures, stage_id, result), hook),
   messages |-> << >>,
   select_seed |-> select_seed,
   seed |-> <<HookSeed(st, stage_id, hook.hook_id)>>]

\* proactive_check once select_hook has returned
ProactiveSelected(st, selected, select_seed, stage_id, roll) ==
  IF selected = << >> THEN [ProactiveSkip(st) EXCEPT !.select_seed = select_seed]
  ELSE ProactiveRolled(st, selected[1],
                       Get(st.proactive_state.hook_exposures, selected[1].hook_id, 0),
                       select_seed, stage_id,
                       roll_with_pity(selected[1].p0, selected[1].dp, selected[1].p_max,
                                      Get(st.proactive_state.hook_exposures, selected[1].hook_id, 0),
                                      roll))

\* proactive_check once the eligible hooks are listed.  With a single eligible
\* hook the selection seed does not decide anything and is not recorded.
ProactiveAmong(st, eligible, stage_id, seed_mod, roll) ==
  IF eligible = << >> THEN ProactiveSkip(st)
  ELSE ProactiveSelected(st, select_hook(eligible, st, stage_id, seed_mod),
                         IF Len(eligible) >= 2 THEN <<HookSelectSeed(st, stage_id)>> ELSE << >>,
                         stage_id, roll)

\* seed_mod and roll are the digest values of the selection seed and the hook seed
proactive_check(st, content, stage_id, seed_mod, roll) ==
  IF st.daily_proactive_count >= st.caps.daily_proactive_cap THEN ProactiveSkip(st)
  ELSE IF st.resources.npc_initiative <= 0 THEN ProactiveSkip(st)
  ELSE ProactiveAmong(st, EligibleHooks(st, content), stage_id, seed_mod, roll)

(* ---------------------------- event selector -------------------------- *)

EventSeed(st, location, time_slot) ==
  stable_seed(<<st.session_id, ToString(st.run_index), ToString(st.day_index), location, time_slot>>)

\* the first list comprehension of select_event
MatchingEvents(content, location, time_slot) ==
  LET Match(event) == event.location = location /\ event.time_slot = time_slot
  IN SelectSeq(content.events, Match)

\* state.event_history[-1] if state.event_history else None
LastEventId(st) ==
  IF st.event_history # << >> THEN st.event_history[Len(st.event_history)] ELSE None

\* the copies of the candidates with the weight of the last event halved
Weighted(candidates, last_event_id) ==
  [j \in 1..Len(candidates) |->
     [candidates[j] EXCEPT !.base_weight =
        IF last_event_id # None /\ candidates[j].event_id = last_event_id
        THEN @ \div 2 ELSE @]]

\* the result holds the chosen event (<<>> for None) and the seed used (<<>> if
\* it decides nothing: fewer than two candidates, or no weight)
SelectEventAmong(weighted, seed, seed_mod) ==
  [event |-> select_weighted(weighted, seed_mod),
   seed |-> IF Len(weighted) >= 2
                 /\ SumSeq([j \in 1..Len(weighted) |-> weighted[j].base_weight]) > 0
            THEN <<seed>> ELSE << >>]

select_event(content, location, time_slot, st, seed_mod) ==
  SelectEventAmong(Weighted(MatchingEvents(content, location, time_slot), LastEventId(st)),
                   EventSeed(st, location, time_slot), seed_mod)

(* ----------------------------- entry points --------------------------- *)

RECURSIVE Options(_)
\* the options of the choice points, in order (ui_hints.extend per choice)
Options(choice_points) ==
  IF choice_points = << >> THEN << >>
  ELSE Head(choice_points).options \o Options(Tail(choice_points))

\* one FragmentCandidate per fragment hook of the event
Candidates(fragment_hooks) ==
  [j \in 1..Len(fragment_hooks) |->
     [anchor |-> fragment_hooks[j].anchor,
      emotion_tag |-> fragment_hooks[j].emotion_tag,
      score |-> fragment_hooks[j].base_score,
      reveal_level |-> fragment_hooks[j].reveal_level,
      trigger_hint |-> fragment_hooks[j].trigger_hint]]

\* the stamina test written with < in place of <=
NoStamina_strict(st) == st.resources.ap < 0

\* the first test of action_select
NoStamina(st) == st.resources.ap <= 0

\* the action point taken and the context set
Spent(st, location, time_slot, stage_id) ==
  [st EXCEPT !.resources.ap = @ - 1,
             !.current_context = [event_id |-> None, location |-> location,
                                  time_slot |-> time_slot, stage_id |-> stage_id]]

\* the branch of action_select for a selected event; no_fragment_message is
\* fragment_message is None
WithEvent(st, event, no_fragment_message) ==
  [st EXCEPT !.current_context.event_id = event.event_id,
             !.event_history = IF event.event_id # "" THEN Append(@, event.event_id) ELSE @,
             !.fragment_candidates_today =
                IF no_fragment_message THEN @ \o Candidates(event.fragment_hooks) ELSE @]

\* the state when proactive_check is called; fr and ev are the results of
\* fragment_trigger_check and select_event
AfterEvent(fr, ev) ==
  IF ev.event = << >> THEN fr.state
  ELSE WithEvent(fr.state, ev.event[1], fr.message = << >>)

EventMessages(selected) ==
  IF selected # << >>
  THEN << Message("narrator", selected[1].intro, "event_intro", << >>),
          Message("narrator", selected[1].outro, "event_outro", << >>) >>
  ELSE << Message("narrator", "nothing special happens here", "event_fallback", << >>) >>

\* what action_select returns and the seeds it used
ActionResult(fr, ev, pr) ==
  [state |-> pr.state,
   messages |-> fr.message \o EventMessages(ev.event) \o pr.messages,
   ui_hints |-> IF ev.event # << >> THEN Options(ev.event[1].choice_points) ELSE << >>,
   seeds |-> [fragment |-> fr.seed, event |-> ev.seed,
              hook_select |-> pr.select_seed, hook |-> pr.seed]]

\* action_select from the call of proactive_check on
ActionProactive(fr, ev, content, stage_id, hmod, hroll) ==
  ActionResult(fr, ev, proactive_check(AfterEvent(fr, ev), content, stage_id, hmod, hroll))

\* action_select from the call of select_event on
ActionEvent(fr, content, location, time_slot, stage_id, emod, hmod, hroll) ==
  ActionProactive(fr, select_event(content, location, time_slot, fr.state, emod),
                  content, stage_id, hmod, hroll)

\* froll, emod, hmod, hroll are the digest values of the fragment seed, the
\* event seed, the hook-selection seed and the hook seed
action_select(st, content, location, time_slot, stage_id, froll, emod, hmod, hroll) ==
  IF NoStamina(st)
  THEN [state |-> st,
        messages |-> << Message("system", "no stamina left", "warning", << >>) >>,
        ui_hints |-> << >>,
        seeds |-> [fragment |-> << >>, event |-> << >>, hook_select |-> << >>, hook |-> << >>]]
  ELSE ActionEvent(fragment_trigger_check(Spent(st, location, time_slot, stage_id),
                                          location, stage_id, froll),
                   content, location, time_slot, stage_id, emod, hmod, hroll)

\* the chat turn taken and the candidate of the conversation added
Chatted(st) ==
  [st EXCEPT !.resources.chat_turns = @ - 1,
             !.fragment_candidates_today =
                Append(@, [anchor |-> "chat", emotion_tag |-> "curious", score |-> 30,
                           reveal_level |-> 1,
                           trigger_hint |-> << [kind |-> "location",
                                                value |-> ContextLocation(st)] >>])]

\* what chat returns and the seeds it used; pr is the result of proactive_check
ChatResult(pr) ==
  [state |-> pr.state,
   messages |-> << Message("npc", "she listens carefully", "chat", << >>) >> \o pr.messages,
   seeds |-> [hook_select |-> pr.select_seed, hook |-> pr.seed]]

chat(st, text, content, stage_id, hmod, hroll) ==
  IF st.resources.chat_turns <= 0
  THEN [state |-> st,
        messages |-> << Message("system", "enough talk for today", "warning", << >>) >>,
        seeds |-> [hook_select |-> << >>, hook |-> << >>]]
  ELSE ChatResult(proactive_check(Chatted(st), content, stage_id, hmod, hroll))

\* content.endings[0] if content.endings else the default ending
Ending(content) ==
  IF content.endings # << >> THEN content.endings[1] ELSE [scenes |-> <<"the story ends">>]

final_ending(st, content) ==
  [j \in 1..Len(Ending(content).scenes) |->
     Message("narrator", Ending(content).scenes[j], "final_ending", << >>)]

\* the oldest fragment in place of the most salient one
DeepFragment_first(fragments) == fragments[1]

\* max(state.fragments_active, key=salience_score)
DeepFragment(fragments) ==
  fragments[ArgMaxFirst([i \in 1..Len(fragments) |-> fragments[i].salience_score])]

\* the last-run test written with > in place of >=
IsLastRun_strict(st) == st.run_index > st.max_runs

\* the test of run_end that ends the session
IsLastRun(st) == st.run_index >= st.max_runs

\* the run seed derived without the run index, as for the first run
RunSeed_stale(st) == stable_seed(<<st.session_id, "run_seed">>)

\* the run seed of the run that st.run_index names
RunSeed(st) == stable_seed(<<st.session_id, "run_seed", ToString(st.run_index)>>)

\* the migration to deep memory at the head of run_end
Migrated(st) ==
  [st EXCEPT !.deep_fragments = IF st.fragments_active # << >>
                                THEN << DeepFragment(st.fragments_active) >> ELSE @,
             !.fragments_active = << >>]

\* the next run begun without setting day_index back to 1
NextRun_keepday(st) ==
  [st EXCEPT !.run_index = @ + 1,
             !.game_phase = RUNNING,
             !.run_seed = RunSeed([st EXCEPT !.run_index = @ + 1]),
             !.event_history = << >>]

\* the next run begins
NextRun(st) ==
  [st EXCEPT !.run_index = @ + 1,
             !.day_index = 1,
             !.game_phase = RUNNING,
             !.run_seed = RunSeed([st EXCEPT !.run_index = @ + 1]),
             !.event_history = << >>]

\* run_end after the migration; phases lists the values assigned to
\* game_phase, in order
RunEnded(st, content) ==
  IF IsLastRun(st)
  THEN [state |-> [st EXCEPT !.game_phase = ENDED],
        messages |-> << Message("system", "run " \o ToString(st.run_index) \o " ends",
                                "run_end", << >>) >>
                       \o final_ending([st EXCEPT !.game_phase = FINAL_END], content),
        phases |-> <<FINAL_END, ENDED>>]
  ELSE [state |-> NextRun(st),
        messages |-> << Message("system", "run " \o ToString(st.run_index) \o " ends",
                                "run_end", << >>) >>,
        phases |-> <<RUNNING>>]

run_end(st, cfg, content) == RunEnded(Migrated(st), content)

\* day_end up to the increment of day_index; fragment is what pick_fragment returned
DayAdvanced(st, fragment) ==
  [st EXCEPT !.fragments_active = @ \o fragment,
             !.fragment_candidates_today = << >>,
             !.current_context = CurrentContext,
             !.day_index = @ + 1]

\* the result of day_end when the run ends; re is the result of run_end
DayEndedRun(gain, re) ==
  [state |-> re.state, messages |-> gain \o re.messages, phases |-> <<RUN_END>> \o re.phases]

\* day_end from the test of day_index on; gain is the list of messages so far
DayEnded(st, gain, cfg, content) ==
  IF st.day_index > cfg.run.days_per_run
  THEN DayEndedRun(gain, run_end([st EXCEPT !.game_phase = RUN_END], cfg, content))
  ELSE [state |-> st, messages |-> gain, phases |-> << >>]

\* day_end after pick_fragment
DayEndWith(st, fragment, cfg, content) ==
  DayEnded(DayAdvanced(st, fragment),
           IF fragment # << >>
           THEN << Message("system", "a new memory fragment remains", "fragment_gain", << >>) >>
           ELSE << >>,
           cfg, content)

\* phases lists the values assigned to game_phase during the call, in order
day_end(st, cfg, content) == DayEndWith(st, pick_fragment(st, cfg), cfg, content)

\* the response built without clearing the queue
build_response_keep(st, messages, ui_hints) ==
  [state |-> st,
   messages |-> messages \o st.pending_npc_messages,
   ui_hints |-> ui_hints]

\* the flush of the queued NPC messages into the response
build_response(st, messages, ui_hints) ==
  [state |-> [st EXCEPT !.pending_npc_messages = << >>],
   messages |-> messages \o st.pending_npc_messages,
   ui_hints |-> ui_hints]

(* ---------------------------- state machine --------------------------- *)

VARIABLES
  state,            \* the GameState of the session, as the store holds it
  config,           \* the ConfigBundle loaded at start-up
  content,          \* the ContentBundle loaded at start-up
  digest_roll,      \* seed |-> roll value of its digest, for the seeds rolled so far
  digest_mod,       \* seed |-> seed % 10000, for the seeds used so far
  last,             \* the last entry-point call: its arguments and what it returned
  calls,            \* number of entry-point calls made
  limit,            \* number of entry-point calls explored in this behaviour
  day_end_calls,    \* number of day_end calls made
  successes_today,  \* fragment and proactive successes on the current (run, day)
  fragment_checks,  \* one record per fragment roll: who, which run, day and stage
  args,             \* the arguments of a direct call of a pure function, << >> if none
  returns,          \* <<value>> once the direct call has returned, << >> before
  history,          \* the entry-point calls made so far, if they are recorded
  store,            \* InMemoryStore._store of the concurrent requests: session id |-> GameState
  requests          \* the concurrent requests: request |-> its position and its locals

vars == <<state, config, content, digest_roll, digest_mod, last, calls, limit, day_end_calls,
          successes_today, fragment_checks, args, returns, history, store, requests>>

\* the values a digest may take: the remembered one if the seed was used
\* before, any value if it is new, one fixed value if no seed is used
Draws(seed, digest, values) ==
  IF seed = << >> THEN {CHOOSE v \in values : \A w \in values : v <= w}
  ELSE IF seed[1] \in DOMAIN digest THEN {digest[seed[1]]}
  ELSE values

\* a digest that is not kept from one use of a seed to the next
Remember_forget(seed, value, digest) == digest

\* the digest of seed is value from now on
Remember(seed, value, digest) ==
  IF seed = << >> THEN digest ELSE Put(digest, seed[1], value)

Call(op, location, time_slot, stage_id, messages, ui_hints, queued, response, phases) ==
  [op |-> op, location |-> location, time_slot |-> time_slot, stage_id |-> stage_id,
   messages |-> messages, ui_hints |-> ui_hints, queued |-> queued,
   response |-> response, phases |-> phases]

\* the state after POST /api/session/new
Started(setup) ==
  /\ config = setup.config
  /\ content = setup.content
  /\ state = create_initial_state(setup.config)
  /\ digest_roll = << >>
  /\ digest_mod = << >>
  /\ last = Call("new_session", None, None, None, << >>, << >>, << >>,
                 << Message("system", "a new journey begins", "session_start", << >>) >>, << >>)
  /\ calls = 0
  /\ day_end_calls = 0
  /\ successes_today = [fragment |-> 0, proactive |-> 0]
  /\ fragment_checks = << >>

\* no pure function is called directly
NoDirectCall == args = << >> /\ returns = << >>

\* the calls of the session are not recorded
NotRecorded == history = [recorded |-> FALSE, calls |-> << >>]

\* no request runs concurrently with another
NoConcurrency == store = << >> /\ requests = << >>

Init ==
  /\ \E setup \in Setups : Started(setup)
  /\ limit = MaxCalls
  /\ NoDirectCall
  /\ NotRecorded
  /\ NoConcurrency

\* the handler once the entry point has returned res: the state is saved, the
\* response built and the call recorded
Responded(op, location, time_slot, stage_id, res, ui_hints, phases) ==
  /\ state' = build_response(res.state, res.messages, ui_hints).state
  /\ last' = Call(op, location, time_slot, stage_id, res.messages, ui_hints,
                  res.state.pending_npc_messages,
                  build_response(res.state, res.messages, ui_hints).messages, phases)
  /\ calls' = calls + 1
  /\ history' = IF history.recorded
                THEN [history EXCEPT !.calls =
                        Append(@, [op |-> op, location |-> location,
                                   time_slot |-> time_slot, stage_id |-> stage_id])]
                ELSE history
  /\ UNCHANGED <<args, returns, store, requests>>

\* the successes of the call, added to those of the day
Counted(res) ==
  successes_today' =
    [fragment |-> successes_today.fragment
                    + (res.state.daily_fragment_count - state.daily_fragment_count),
     proactive |-> successes_today.proactive
                    + (res.state.daily_proactive_count - state.daily_proactive_count)]

\* POST /api/day/start
DayStart ==
  /\ calls < limit
  /\ Responded("day_start", None, None, None, day_start(state, config), << >>, << >>)
  /\ UNCHANGED <<config, content, limit, digest_roll, digest_mod, day_end_calls,
                 successes_today, fragment_checks>>

\* the seeds a call of action_select uses.  Which seeds are used does not
\* depend on their digests, except that the hook seed depends on the hook that
\* the selection seed picked.
ActionSeeds(location, time_slot, stage_id, hmod) ==
  action_select(state, content, location, time_slot, stage_id, 0, 0, hmod, 0).seeds

\* the call of action_select has returned res
ActionSelected(location, time_slot, stage_id, froll, emod, hmod, hroll, res) ==
  /\ Responded("action_select", location, time_slot, stage_id, res, res.ui_hints, << >>)
  /\ digest_roll' = Remember(res.seeds.hook, hroll,
                             Remember(res.seeds.fragment, froll, digest_roll))
  /\ digest_mod' = Remember(res.seeds.hook_select, hmod,
                            Remember(res.seeds.event, emod, digest_mod))
  /\ Counted(res)
  /\ fragment_checks' =
       IF res.seeds.fragment # << >>
       THEN Append(fragment_checks,
                   [fragment_id |-> res.state.trace_log[Len(state.trace_log) + 1].fragment_id,
                    run_index |-> state.run_index,
                    day_index |-> state.day_index,
                    stage_id |-> stage_id])
       ELSE fragment_checks

\* POST /api/action/select, with the stage_id parameter of action_select left
\* to the caller (the handler itself passes the default, "event_flow")
ActionSelect ==
  /\ calls < limit
  /\ \E location \in Locations, time_slot \in TimeSlots, stage_id \in ActionStages :
       \E froll \in Draws(ActionSeeds(location, time_slot, stage_id, 0).fragment,
                          digest_roll, RollValues),
          emod \in Draws(ActionSeeds(location, time_slot, stage_id, 0).event,
                         digest_mod, SeedMods),
          hmod \in Draws(ActionSeeds(location, time_slot, stage_id, 0).hook_select,
                         digest_mod, SeedMods) :
         \E hroll \in Draws(ActionSeeds(location, time_slot, stage_id, hmod).hook,
                            digest_roll, RollValues) :
           ActionSelected(location, time_slot, stage_id, froll, emod, hmod, hroll,
                          action_select(state, content, location, time_slot, stage_id,
                                        froll, emod, hmod, hroll))
  /\ UNCHANGED <<config, content, limit, day_end_calls>>

\* the seeds a call of chat uses
ChatSeeds(stage_id, hmod) == chat(state, "text", content, stage_id, hmod, 0).seeds

\* the call of chat has returned res
Chatting(stage_id, hmod, hroll, res) ==
  /\ Responded("chat", None, None, stage_id, res, << >>, << >>)
  /\ digest_roll' = Remember(res.seeds.hook, hroll, digest_roll)
  /\ digest_mod' = Remember(res.seeds.hook_select, hmod, digest_mod)
  /\ Counted(res)

\* POST /api/chat
Chat ==
  /\ calls < limit
  /\ \E stage_id \in ChatStages :
       \E hmod \in Draws(ChatSeeds(stage_id, 0).hook_select, digest_mod, SeedMods) :
         \E hroll \in Draws(ChatSeeds(stage_id, hmod).hook, digest_roll, RollValues) :
           Chatting(stage_id, hmod, hroll, chat(state, "text", content, stage_id, hmod, hroll))
  /\ UNCHANGED <<config, content, limit, day_end_calls, fragment_checks>>

\* the call of day_end has returned res
DayEnding(res) == Responded("day_end", None, None, None, res, << >>, res.phases)

\* POST /api/day/end
DayEnd ==
  /\ calls < limit
  /\ DayEnding(day_end(state, config, content))
  /\ day_end_calls' = day_end_calls + 1
  /\ successes_today' = [fragment |-> 0, proactive |-> 0]
  /\ UNCHANGED <<config, content, limit, digest_roll, digest_mod, fragment_checks>>

Next == DayStart \/ ActionSelect \/ Chat \/ DayEnd

Spec == Init /\ [][Next]_vars

\* one more call and one more action point on the two-day configuration, for
\* the claims about stages: a fragment exists from the second call on and
\* then takes three checks on one day
InitStages ==
  /\ Started([config |-> ConfigBundle(2, 2, 2, 1, 4), content |-> ContentBundle(TwoEndings)])
  /\ limit = MaxCalls + 1
  /\ NoDirectCall
  /\ NotRecorded
  /\ NoConcurrency

SpecStages == InitStages /\ [][Next]_vars

(* ------------------------ a second copy of a session ----------------- *)

\* the session with its calls recorded, so that a second copy can be driven
\* through the same calls
InitRecorded ==
  /\ \E setup \in Setups : Started(setup)
  /\ limit = MaxCalls
  /\ NoDirectCall
  /\ history = [recorded |-> TRUE, calls |-> << >>]
  /\ NoConcurrency

SpecRecorded == InitRecorded /\ [][Next]_vars

\* the value of the digest of seed: sha256 is the same function for every copy
Digest(seed, digest, values) == CHOOSE v \in Draws(seed, digest, values) : TRUE

\* what a handler returns for the result res of its entry point
Response(res, ui_hints) == build_response(res.state, res.messages, ui_hints)

\* what api_action_select returns for the result res of action_select
ActionResponse(res) == Response(res, res.ui_hints)

\* api_action_select on the copy, once the digests of the first three seeds are known
CopyActionWith(st, c, froll, emod, hmod) ==
  action_select(st, content, c.location, c.time_slot, c.stage_id, froll, emod, hmod,
                Digest(action_select(st, content, c.location, c.time_slot, c.stage_id,
                                     0, 0, hmod, 0).seeds.hook,
                       digest_roll, RollValues))

\* api_action_select on the copy, once the seeds it uses are known
CopyActionSeeded(st, c, seeds) ==
  CopyActionWith(st, c, Digest(seeds.fragment, digest_roll, RollValues),
                 Digest(seeds.event, digest_mod, SeedMods),
                 Digest(seeds.hook_select, digest_mod, SeedMods))

CopyAction(st, c) ==
  CopyActionSeeded(st, c, action_select(st, content, c.location, c.time_slot, c.stage_id,
                                        0, 0, 0, 0).seeds)

\* api_chat on the copy, once the digest of the selection seed is known
CopyChatWith(st, c, hmod) ==
  chat(st, "text", content, c.stage_id, hmod,
       Digest(chat(st, "text", content, c.stage_id, hmod, 0).seeds.hook,
              digest_roll, RollValues))

CopyChat(st, c) ==
  CopyChatWith(st, c, Digest(chat(st, "text", content, c.stage_id, 0, 0).seeds.hook_select,
                             digest_mod, SeedMods))

\* the response of the handler of call c on the copy in state st
CopyCall(st, c) ==
  IF c.op = "day_start" THEN Response(day_start(st, config), << >>)
  ELSE IF c.op = "day_end" THEN Response(day_end(st, config, content), << >>)
  ELSE IF c.op = "chat" THEN Response(CopyChat(st, c), << >>)
  ELSE ActionResponse(CopyAction(st, c))

RECURSIVE Copy(_)
\* the last response given to a copy that starts from the state of
\* create_initial_state and receives the calls cs
Copy(cs) ==
  IF cs = << >>
  THEN [state |-> create_initial_state(config), messages |-> last.response, ui_hints |-> << >>]
  ELSE CopyCall(Copy(SubSeq(cs, 1, Len(cs) - 1)).state, cs[Len(cs)])

(* ---------------- concurrent requests on the in-memory store ---------- *)

\* Sync handlers run on the threads of a pool, and store.get hands every
\* request the very GameState object the store holds, so the reads and writes
\* of two requests on one session interleave.  A request is a sequence of
\* steps: the test of ap, the read and the write of ap -= 1, the rest of
\* action_select up to proactive_check, the gates of proactive_check, and its
\* roll with the end of the handler.

Requests == {"r1", "r2", "r3"}

\* r1 and r2 are requests on session A, r3 is a request on session B
SessionOf == [r \in Requests |-> IF r = "r3" THEN "B" ELSE "A"]

\* the GameState of new_session for the session id that uuid4 gave
new_session(sid, cfg) ==
  [create_initial_state(cfg) EXCEPT !.session_id = sid,
                                    !.run_seed = stable_seed(<<sid, "run_seed">>)]

\* a store that hands out the state of one session whatever the id
get_shared(st_store, sid) == st_store["A"]

\* InMemoryStore.get
get(st_store, sid) == st_store[sid]

\* InMemoryStore.save
save(st_store, st) == Put(st_store, st.session_id, st)

\* the state a request works on
Session(r) == get(store, requests[r].sid)

\* two fresh sessions with one action point a day, and one
\* POST /api/action/select per request about to be handled
InitConcurrent ==
  /\ Started([config |-> ConfigBundle(2, 2, 2, 1, 1), content |-> ContentBundle(TwoEndings)])
  /\ limit = 0
  /\ NoDirectCall
  /\ NotRecorded
  /\ store = save(save(<< >>, new_session("A", ConfigBundle(2, 2, 2, 1, 1))),
                  new_session("B", ConfigBundle(2, 2, 2, 1, 1)))
  /\ \E locations \in [Requests -> Locations] :
       requests = [r \in Requests |->
                     [sid |-> SessionOf[r], pc |-> "start", location |-> locations[r],
                      time_slot |-> "morning", stage_id |-> "event_flow", ap |-> 0,
                      messages |-> << >>, ui_hints |-> << >>, eligible |-> << >>,
                      response |-> << >>]]

unchanged_sequential ==
  UNCHANGED <<state, config, content, last, calls, limit, day_end_calls, successes_today,
              fragment_checks, args, returns, history>>

\* the end of a handler: store.save and the response of build_response
Answered(r, response) ==
  /\ store' = save(store, response.state)
  /\ requests' = [requests EXCEPT ![r].pc = "done",
                                  ![r].response = response.messages,
                                  ![r].ui_hints = response.ui_hints]

\* store.get and the test of ap
ReqCheck(r) ==
  /\ requests[r].pc = "start"
  /\ IF NoStamina(Session(r))
     THEN Answered(r, build_response(Session(r),
                                     << Message("system", "no stamina left", "warning", << >>) >>,
                                     << >>))
     ELSE /\ requests' = [requests EXCEPT ![r].pc = "load"]
          /\ UNCHANGED store
  /\ UNCHANGED <<digest_roll, digest_mod>>
  /\ unchanged_sequential

\* the read of state.resources.ap -= 1
ReqLoad(r) ==
  /\ requests[r].pc = "load"
  /\ requests' = [requests EXCEPT ![r].pc = "store", ![r].ap = Session(r).resources.ap]
  /\ UNCHANGED <<store, digest_roll, digest_mod>>
  /\ unchanged_sequential

\* the write of state.resources.ap -= 1
ReqStore(r) ==
  /\ requests[r].pc = "store"
  /\ store' = save(store, [Session(r) EXCEPT !.resources.ap = requests[r].ap - 1])
  /\ requests' = [requests EXCEPT ![r].pc = "event"]
  /\ UNCHANGED <<digest_roll, digest_mod>>
  /\ unchanged_sequential

\* the context set
InContext(st, location, time_slot, stage_id) ==
  [st EXCEPT !.current_context = [event_id |-> None, location |-> location,
                                  time_slot |-> time_slot, stage_id |-> stage_id]]

\* the request has run action_select up to the call of proactive_check
EventDone(r, froll, emod, fr, ev) ==
  /\ store' = save(store, AfterEvent(fr, ev))
  /\ requests' = [requests EXCEPT
                    ![r].pc = "gate",
                    ![r].messages = fr.message \o EventMessages(ev.event),
                    ![r].ui_hints = IF ev.event # << >>
                                    THEN Options(ev.event[1].choice_points) ELSE << >>]
  /\ digest_roll' = Remember(fr.seed, froll, digest_roll)
  /\ digest_mod' = Remember(ev.seed, emod, digest_mod)

EventSelected(r, froll, emod, fr) ==
  EventDone(r, froll, emod, fr,
            select_event(content, requests[r].location, requests[r].time_slot, fr.state, emod))

\* the state the fragment check of the request starts from
Entered(r) ==
  InContext(Session(r), requests[r].location, requests[r].time_slot, requests[r].stage_id)

\* the context, the fragment check and the event of action_select
ReqEvent(r) ==
  /\ requests[r].pc = "event"
  /\ \E froll \in Draws(fragment_trigger_check(Entered(r), requests[r].location,
                                                 requests[r].stage_id, 0).seed,
                          digest_roll, RollValues),
        emod \in Draws(select_event(content, requests[r].location, requests[r].time_slot,
                                    Session(r), 0).seed,
                       digest_mod, SeedMods) :
       EventSelected(r, froll, emod,
                     fragment_trigger_check(Entered(r), requests[r].location,
                                            requests[r].stage_id, froll))
  /\ unchanged_sequential

\* the two gates of proactive_check and its list of eligible hooks
ReqGate(r) ==
  /\ requests[r].pc = "gate"
  /\ requests' =
       [requests EXCEPT
          ![r].pc = "roll",
          ![r].eligible =
             IF Session(r).daily_proactive_count >= Session(r).caps.daily_proactive_cap
             THEN << >>
             ELSE IF Session(r).resources.npc_initiative <= 0 THEN << >>
             ELSE EligibleHooks(Session(r), content)]
  /\ UNCHANGED <<store, digest_roll, digest_mod>>
  /\ unchanged_sequential

\* proactive_check has returned pr
RollDone(r, hmod, hroll, pr) ==
  /\ Answered(r, build_response(pr.state, requests[r].messages \o pr.messages,
                                requests[r].ui_hints))
  /\ digest_roll' = Remember(pr.seed, hroll, digest_roll)
  /\ digest_mod' = Remember(pr.select_seed, hmod, digest_mod)

\* proactive_check from select_hook on, and the end of the handler
ReqRoll(r) ==
  /\ requests[r].pc = "roll"
  /\ \E hmod \in Draws(ProactiveAmong(Session(r), requests[r].eligible, requests[r].stage_id,
                                        0, 0).select_seed,
                         digest_mod, SeedMods) :
       \E hroll \in Draws(ProactiveAmong(Session(r), requests[r].eligible,
                                          requests[r].stage_id, hmod, 0).seed,
                           digest_roll, RollValues) :
         RollDone(r, hmod, hroll,
                  ProactiveAmong(Session(r), requests[r].eligible, requests[r].stage_id,
                                 hmod, hroll))
  /\ unchanged_sequential

NextConcurrent ==
  \E r \in Requests :
    ReqCheck(r) \/ ReqLoad(r) \/ ReqStore(r) \/ ReqEvent(r) \/ ReqGate(r) \/ ReqRoll(r)

SpecConcurrent == InitConcurrent /\ [][NextConcurrent]_vars

(* ------------------- direct calls of the pure functions --------------- *)

\* the lists of at most MaxItems items, item i being the i-th of its list
ItemLists ==
  UNION { { [i \in 1..n |-> [event_id |-> "e" \o ToString(i), base_weight |-> ws[i]]] :
              ws \in [1..n -> Weights] } : n \in 0..MaxItems }

\* the arguments of a call select_weighted(items, seed)
SelectArgs == [op : {"select_weighted"}, items : ItemLists, seed : Seeds]

\* the arguments of two calls roll_with_pity(p0, dp, p_max, n, seed) that
\* differ in the exposure count only, with 0 <= p0 <= p_max <= 1 and dp >= 0
PityArgs ==
  { a \in [op : {"roll_with_pity"}, p0 : Probabilities, dp : Increments,
           p_max : Probabilities, n1 : 0..MaxExposures, n2 : 0..MaxExposures,
           roll : RollValues] : a.p0 <= a.p_max /\ a.n1 < a.n2 }

\* no session is driven; one pure function is about to be called
InitPure ==
  /\ Started([config |-> ConfigBundle(1, 1, 0, 0, 3), content |-> ContentBundle(NoEndings)])
  /\ limit = 0
  /\ args \in SelectArgs \cup PityArgs
  /\ returns = << >>
  /\ NotRecorded
  /\ NoConcurrency

unchanged_session ==
  UNCHANGED <<state, config, content, digest_roll, digest_mod, last, calls, limit,
              day_end_calls, successes_today, fragment_checks, history, store, requests>>

\* select_weighted(items, seed); the function takes seed % 10_000
SelectWeighted ==
  /\ returns = << >>
  /\ args.op = "select_weighted"
  /\ returns' = << select_weighted(args.items, args.seed % 10000) >>
  /\ UNCHANGED args
  /\ unchanged_session

\* roll_with_pity at n1 and at n2 exposures, with the same seed
RollWithPity ==
  /\ returns = << >>
  /\ args.op = "roll_with_pity"
  /\ returns' = << << roll_with_pity(args.p0, args.dp, args.p_max, args.n1, args.roll),
                      roll_with_pity(args.p0, args.dp, args.p_max, args.n2, args.roll) >> >>
  /\ UNCHANGED args
  /\ unchanged_session

NextPure == SelectWeighted \/ RollWithPity

SpecPure == InitPure /\ [][NextPure]_vars


(* ------------------- a session on its third day ----------------------- *)

\* a run of three days with five action points, so that two fragments can be
\* active on one day
ThreeDays == [config |-> ConfigBundle(3, 1, 2, 1, 5), content |-> ContentBundle(NoEndings)]

\* the calls made so far, each on the state the handler of the one before
\* saved: on day 1 action_select at L1,
Day1Action ==
  action_select(create_initial_state(ThreeDays.config), ThreeDays.content,
                "L1", "morning", "event_flow", 90, 0, 0, 90)

\* day_end, which promotes the candidate of the event to the first fragment,
Day1End == day_end(ActionResponse(Day1Action).state, ThreeDays.config, ThreeDays.content)

\* on day 2 action_select at L1, where the roll on the first fragment fails,
Day2Action ==
  action_select(Response(Day1End, << >>).state, ThreeDays.content,
                "L1", "morning", "event_flow", 90, 0, 0, 90)

\* action_select at L1 again, where no roll is made and the event leaves its candidates,
Day2Again ==
  action_select(ActionResponse(Day2Action).state, ThreeDays.content,
                "L1", "morning", "event_flow", 90, 0, 0, 90)

\* and day_end, which promotes the second fragment
Day2End == day_end(ActionResponse(Day2Again).state, ThreeDays.config, ThreeDays.content)

\* the digests of the seeds that a call of action_select used
RollsOf(res, froll, hroll, digest) ==
  Remember(res.seeds.hook, hroll, Remember(res.seeds.fragment, froll, digest))

ModsOf(res, emod, hmod, digest) ==
  Remember(res.seeds.hook_select, hmod, Remember(res.seeds.event, emod, digest))

\* the session after these five calls, with up to MaxCalls - 1 calls to come
InitThirdDay ==
  /\ config = ThreeDays.config
  /\ content = ThreeDays.content
  /\ state = Response(Day2End, << >>).state
  /\ digest_roll = RollsOf(Day2Again, 90, 90,
                           RollsOf(Day2Action, 90, 90, RollsOf(Day1Action, 90, 90, << >>)))
  /\ digest_mod = ModsOf(Day2Again, 0, 0,
                         ModsOf(Day2Action, 0, 0, ModsOf(Day1Action, 0, 0, << >>)))
  /\ last = Call("day_end", None, None, None, Day2End.messages, << >>,
                 Day2End.state.pending_npc_messages,
                 Response(Day2End, << >>).messages, Day2End.phases)
  /\ calls = 5
  /\ limit = 5 + MaxCalls - 1
  /\ day_end_calls = 2
  /\ successes_today = [fragment |-> 0, proactive |-> 0]
  /\ fragment_checks = << [fragment_id |-> "fragment_1_1_1", run_index |-> 1,
                           day_index |-> 2, stage_id |-> "event_flow"] >>
  /\ NoDirectCall
  /\ NotRecorded
  /\ NoConcurrency

SpecThirdDay == InitThirdDay /\ [][Next]_vars

(* ------------------------------- claims ------------------------------- *)

Range(seq) == {seq[i] : i \in 1..Len(seq)}

\* the trace entries the step appends
NewTrace == SubSeq(state'.trace_log, Len(state.trace_log) + 1, Len(state'.trace_log))

\* C1: after every call, daily_fragment_count is at most caps.daily_fragment_cap
\* and daily_proactive_count is at most caps.daily_proactive_cap.
C1_DailyCountersWithinCaps ==
  /\ state.daily_fragment_count <= state.caps.daily_fragment_cap
  /\ state.daily_proactive_count <= state.caps.daily_proactive_cap

\* both counters stand at their caps after an action: the proactive hook has
\* used the single slot of the day, and with a fragment cap of 0 the active
\* fragment of the location of the action was not checked
C1_Witness ==
  /\ last.op = "action_select"
  /\ state.daily_proactive_count = 1
  /\ state.daily_proactive_count = state.caps.daily_proactive_cap
  /\ state.daily_fragment_count = state.caps.daily_fragment_cap
  /\ \E f \in Range(state.fragments_active) :
       /\ ~f.consumed
       /\ f.trigger.value = last.location
       /\ f.trigger_state.last_check_day = << >>

\* C2: on every game day (run_index, day_index) the number of successful
\* fragment triggers is at most caps.daily_fragment_cap and the number of
\* successful proactive hooks is at most caps.daily_proactive_cap, whatever
\* calls are made on that day, repeated day_start calls included.
C2_CapsPerGameDay ==
  /\ successes_today.fragment <= state.caps.daily_fragment_cap
  /\ successes_today.proactive <= state.caps.daily_proactive_cap

\* C3: within a run a fragment is rolled at most once for a given
\* (day_index, stage_id) pair.
C3_OneCheckPerStagePerDay ==
  \A i, j \in 1..Len(fragment_checks) :
    fragment_checks[i] = fragment_checks[j] => i = j

\* C4: a consumed fragment is never checked again: every later copy of it, in
\* fragments_active or in deep_fragments, is equal to it (trigger_state and
\* consumed included), and no new fragment_roll trace entry names it.
C4_ConsumedNeverChecked ==
  [][\A f \in Range(state.fragments_active) \cup Range(state.deep_fragments) :
       f.consumed =>
         /\ \A g \in Range(state'.fragments_active) \cup Range(state'.deep_fragments) :
              g.fragment_id = f.fragment_id => g = f
         /\ \A e \in Range(NewTrace) :
              e.kind = "fragment_roll" => e.fragment_id # f.fragment_id]_vars

\* an action at the location of a consumed fragment, at a stage it was not
\* checked at, on a day whose fragment cap is not reached
C4_Witness ==
  /\ last.op = "action_select"
  /\ state.daily_fragment_count < state.caps.daily_fragment_cap
  /\ \E f \in Range(state.fragments_active) :
       /\ f.consumed
       /\ f.trigger.value = last.location
       /\ f.trigger_state.last_check_day = <<state.day_index>>
       /\ f.trigger_state.last_check_stage # last.stage_id

\* C5: a fragment that is in deep_fragments is in deep_fragments after every
\* later operation.
C5_DeepFragmentsPermanent ==
  [][\A f \in Range(state.deep_fragments) : f \in Range(state'.deep_fragments)]_vars

\* C6: a run end with active fragments leaves exactly one fragment in deep
\* memory, one of the run's active fragments and of maximal salience_score
\* among them, and empties fragments_active; a run end without active
\* fragments leaves deep_fragments as it was.  The run's active fragments are
\* those of the state with the fragment this day_end call promotes.
C6_RunEndMigratesMostSalient ==
  [][(last'.op = "day_end" /\ last'.phases # << >>) =>
       LET active == state.fragments_active \o pick_fragment(state, config)
           deep == state'.deep_fragments
       IN /\ state'.fragments_active = << >>
          /\ IF active # << >>
             THEN /\ Len(deep) = 1
                  /\ deep[1] \in Range(active)
                  /\ \A f \in Range(active) : f.salience_score <= deep[1].salience_score
             ELSE deep = state.deep_fragments]_vars

\* a run end with two active fragments, the second one the more salient
C6_Witness ==
  /\ last.op = "day_end"
  /\ last.phases # << >>
  /\ Len(state.deep_fragments) = 1
  /\ state.deep_fragments[1].fragment_id = "fragment_1_2_2"
  /\ state.deep_fragments[1].salience_score = 50

\* C7: a day_end call that makes day_index exceed days_per_run while
\* run_index < max_runs passes through RUN_END and ends in RUNNING with
\* day_index = 1, run_index one higher, run_seed derived from the session id
\* and the new run_index, and an empty event_history.
C7_RunTransition ==
  [][(/\ last'.op = "day_end"
      /\ state.day_index + 1 > config.run.days_per_run
      /\ state.run_index < state.max_runs) =>
       /\ last'.phases = <<RUN_END, RUNNING>>
       /\ state'.game_phase = RUNNING
       /\ state'.day_index = 1
       /\ state'.run_index = state.run_index + 1
       /\ state'.run_seed = "sid|run_seed|" \o ToString(state.run_index + 1)
       /\ state'.event_history = << >>]_vars

\* the second run has begun, the event of the run before is forgotten
C7_Witness ==
  /\ last.op = "day_end"
  /\ last.phases = <<RUN_END, RUNNING>>
  /\ state.run_index = 2
  /\ state.day_index = 1
  /\ state.deep_fragments # << >>
  /\ state.event_history = << >>

\* the messages of the scenes of the first authored ending
FirstEndingMessages ==
  [j \in 1..Len(content.endings[1].scenes) |->
     Message("narrator", content.endings[1].scenes[j], "final_ending", << >>)]

\* C8: with days_per_run = D and max_runs = M the phase is RUNNING after each
\* of the first D*M - 1 day_end calls; the (D*M)-th day_end call goes through
\* RUN_END and FINAL_END to ENDED and returns, after the fragment_gain message
\* if a fragment was promoted, the run_end message followed by one
\* final_ending message per scene of the first ending, in scene order.
C8_FinalTransition ==
  LET total == config.run.days_per_run * config.run.max_runs
      gain == SelectSeq(last.messages, LAMBDA m : m.kind = "fragment_gain")
      rest == SelectSeq(last.messages, LAMBDA m : m.kind # "fragment_gain")
  IN /\ day_end_calls < total => state.game_phase = RUNNING
     /\ (day_end_calls = total /\ last.op = "day_end") =>
          /\ last.phases = <<RUN_END, FINAL_END, ENDED>>
          /\ state.game_phase = ENDED
          /\ Len(gain) <= 1
          /\ last.messages = gain \o rest
          /\ Head(rest) = Message("system", "run " \o ToString(state.max_runs) \o " ends",
                                  "run_end", << >>)
          /\ content.endings # << >> => Tail(rest) = FirstEndingMessages
          /\ last.response = last.messages

\* the fourth day_end call of a session of two runs of two days
C8_Witness ==
  /\ config.run.days_per_run = 2
  /\ config.run.max_runs = 2
  /\ day_end_calls = 4
  /\ last.op = "day_end"
  /\ state.game_phase = ENDED
  /\ Len(last.messages) = 3

\* what the session must keep once it has ended
Kept(st) ==
  <<st.resources, st.day_index, st.run_index, st.daily_fragment_count,
    st.daily_proactive_count, st.fragments_active, st.deep_fragments>>

\* C9: once the phase is ENDED no call changes resources, day_index, run_index,
\* the daily counters, fragments_active or deep_fragments.
C9_EndedIsReadOnly ==
  [][state.game_phase = ENDED => Kept(state') = Kept(state)]_vars

\* C10: action_select with ap <= 0 and chat with chat_turns <= 0 return exactly
\* one message, of kind warning, no ui hints, and leave the whole session
\* state as it was.
C10_ExhaustionIsSoft ==
  [][((last'.op = "action_select" /\ state.resources.ap <= 0)
        \/ (last'.op = "chat" /\ state.resources.chat_turns <= 0)) =>
       /\ Len(last'.messages) = 1
       /\ last'.messages[1].kind = "warning"
       /\ last'.ui_hints = << >>
       /\ last'.queued = << >>
       /\ state' = state
       /\ digest_roll' = digest_roll
       /\ digest_mod' = digest_mod]_vars

\* the fourth action of a day that began with three action points
C10_Witness ==
  /\ last.op = "action_select"
  /\ calls = 4
  /\ state.resources.ap = 0
  /\ Len(last.messages) = 1
  /\ last.messages[1].kind = "warning"

\* C11: a performed fragment check on a fragment with n exposures and
\* probability p = min(p_max, p0 + n*dp): if the draw is <= p the fragment
\* fires (fragment_event message), its exposures become 0, consumed becomes
\* one_shot and daily_fragment_count grows by exactly 1; otherwise exposures
\* becomes n + 1, daily_fragment_count and consumed are unchanged and the
\* micro_flashback line of tier min(n + 1, 3) is returned.
C11_FragmentCheckOutcome ==
  [][\A e \in Range(NewTrace) :
       e.kind = "fragment_roll" =>
         \E i \in 1..Len(state.fragments_active) :
           LET f == state.fragments_active[i]
               g == state'.fragments_active[i]
               n == f.trigger_state.exposures
               p == Min(f.trigger_state.p_max, f.trigger_state.p0 + n * f.trigger_state.dp)
           IN /\ f.fragment_id = e.fragment_id
              /\ g.fragment_id = e.fragment_id
              /\ e.exposures = n
              /\ IF e.roll <= p
                 THEN /\ g.trigger_state.exposures = 0
                      /\ g.consumed = f.one_shot
                      /\ state'.daily_fragment_count = state.daily_fragment_count + 1
                      /\ last'.messages[1].kind = "fragment_event"
                 ELSE /\ g.trigger_state.exposures = n + 1
                      /\ g.consumed = f.consumed
                      /\ state'.daily_fragment_count = state.daily_fragment_count
                      /\ last'.messages[1]
                           = Message("narrator", MicroLines[Min(n + 1, 3)],
                                     "micro_flashback", << >>)]_vars

\* a fragment with two exposures, p0 = 0.2 and dp = 0.15 is checked with a
\* draw of 0.4: the probability is 0.5, the check succeeds, exposures is 0
\* again and the counter is 1
C11_Witness ==
  /\ last.op = "action_select"
  /\ state.daily_fragment_count = 1
  /\ state.trace_log # << >>
  /\ LET e == state.trace_log[Len(state.trace_log)]
     IN /\ e.kind = "fragment_roll"
        /\ e.exposures = 2
        /\ e.probability = 50
        /\ e.roll = 40
        /\ e.success
        /\ \E f \in Range(state.fragments_active) :
             /\ f.fragment_id = e.fragment_id
             /\ f.trigger_state.exposures = 0
             /\ f.consumed

\* the values of a dict for the keys other than key
Others(map, key) == [k \in DOMAIN map \ {key} |-> map[k]]

\* C12: a proactive attempt on hook h.  On success h's exposure becomes 0, its
\* cooldown becomes day_index + cooldown_days, npc_initiative falls by exactly
\* 1, daily_proactive_count grows by exactly 1 and exactly one NPC message is
\* queued; on failure h's exposure grows by exactly 1 and cooldowns,
\* npc_initiative, daily_proactive_count and the queue are unchanged; in both
\* cases the exposure and cooldown of every other hook are unchanged.
C12_ProactiveOutcome ==
  [][\A e \in Range(NewTrace) :
       e.kind = "proactive_roll" =>
         LET h == e.hook_id
             before == state.proactive_state
             after == state'.proactive_state
             n == Get(before.hook_exposures, h, 0)
         IN /\ Others(after.hook_exposures, h) = Others(before.hook_exposures, h)
            /\ Others(after.hook_cooldowns, h) = Others(before.hook_cooldowns, h)
            /\ IF e.success
               THEN /\ after.hook_exposures[h] = 0
                    /\ \E i \in 1..Len(content.hooks) :
                         /\ content.hooks[i].hook_id = h
                         /\ after.hook_cooldowns[h]
                              = state.day_index + content.hooks[i].cooldown_days
                    /\ state'.resources.npc_initiative = state.resources.npc_initiative - 1
                    /\ state'.daily_proactive_count = state.daily_proactive_count + 1
                    /\ Len(last'.queued) = Len(state.pending_npc_messages) + 1
                    /\ last'.queued[Len(last'.queued)].role = "npc"
               ELSE /\ after.hook_exposures[h] = n + 1
                    /\ after.hook_cooldowns = before.hook_cooldowns
                    /\ state'.resources.npc_initiative = state.resources.npc_initiative
                    /\ state'.daily_proactive_count = state.daily_proactive_count
                    /\ last'.queued = state.pending_npc_messages]_vars

\* hook h1 succeeds on day 2 after hook h2 failed on the same day: h1 has
\* exposure 0 and cooldown 3, h2 keeps its exposure of 1, one message is queued
C12_Witness ==
  /\ state.day_index = 2
  /\ Len(last.queued) = 1
  /\ state.trace_log # << >>
  /\ state.trace_log[Len(state.trace_log)].kind = "proactive_roll"
  /\ state.trace_log[Len(state.trace_log)].hook_id = "h1"
  /\ state.trace_log[Len(state.trace_log)].success
  /\ DOMAIN state.proactive_state.hook_exposures = {"h1", "h2"}
  /\ state.proactive_state.hook_exposures["h1"] = 0
  /\ state.proactive_state.hook_exposures["h2"] = 1
  /\ state.proactive_state.hook_cooldowns["h1"] = 3
  /\ state.resources.npc_initiative = 0
  /\ state.daily_proactive_count = 1

\* the step appends no proactive_roll trace entry
NoProactiveRoll == \A e \in Range(NewTrace) : e.kind # "proactive_roll"

\* C13: a proactive roll is performed only when daily_proactive_count is below
\* its cap, npc_initiative is positive, and the rolled hook meets its
\* conditions (location and time slot equal to those of the current context
\* when specified, min_day <= day_index <= max_day when specified) and has
\* cooldown_until_day <= day_index; a call that performs no roll leaves the
\* proactive state, npc_initiative and daily_proactive_count as they were and
\* queues no message.
C13_ProactiveGating ==
  [][/\ \A e \in Range(NewTrace) :
          e.kind = "proactive_roll" =>
            /\ state.daily_proactive_count < state.caps.daily_proactive_cap
            /\ state.resources.npc_initiative > 0
            /\ Get(state.proactive_state.hook_cooldowns, e.hook_id, 0) <= state.day_index
            /\ \E i \in 1..Len(content.hooks) :
                 LET c == content.hooks[i].conditions
                 IN /\ content.hooks[i].hook_id = e.hook_id
                    /\ c.location # "" => c.location = state'.current_context.location
                    /\ c.time_slot # "" => c.time_slot = state'.current_context.time_slot
                    /\ c.min_day # 0 => c.min_day <= state.day_index
                    /\ c.max_day # 0 => state.day_index <= c.max_day
     /\ (NoProactiveRoll /\ last'.op \in {"action_select", "chat"}) =>
          /\ state'.proactive_state = state.proactive_state
          /\ state'.resources.npc_initiative = state.resources.npc_initiative
          /\ state'.daily_proactive_count = state.daily_proactive_count
          /\ last'.queued = << >>]_vars

\* an action at L2 on day 1 with a free slot and initiative left, while h1 is
\* on cooldown until day 2 and h2 only matches day 2: no roll is made
C13_Witness ==
  /\ last.op = "action_select"
  /\ last.location = "L2"
  /\ state.day_index = 1
  /\ state.daily_proactive_count = 0
  /\ state.caps.daily_proactive_cap = 1
  /\ state.resources.npc_initiative = 1
  /\ state.resources.ap = 2
  /\ Get(state.proactive_state.hook_cooldowns, "h1", 0) = 2
  /\ Len(state.trace_log) = 1

\* C14: caps never change, and when the first action_select or chat of a new
\* day is processed, right after a day_end call that left the session in phase
\* RUNNING, the resource pool (ap, chat_turns, key_q, npc_initiative) is the
\* configured initial pool.
C14_ResourcesResetAtDayBoundary ==
  [][/\ state'.caps = state.caps
     /\ (/\ last.op = "day_end"
         /\ state.game_phase = RUNNING
         /\ last'.op \in {"action_select", "chat"}) =>
          state.resources = config.resources]_vars

\* the number of fragment rolls the step performs
FragmentRolls == Len(fragment_checks') - Len(fragment_checks)

\* the number of proactive rolls the step performs: a failed roll raises an
\* exposure, a successful one raises daily_proactive_count
ProactiveRolls ==
  IF \/ state'.proactive_state # state.proactive_state
     \/ state'.daily_proactive_count > state.daily_proactive_count
  THEN 1 ELSE 0

\* C15: the trace log of a state is a prefix of the trace log of the next
\* state, run transitions included; a step appends exactly one entry per
\* fragment roll and per proactive roll it performs and nothing else; every
\* entry has probability = min(p_max, p0 + exposures*dp) for the parameters of
\* its fragment or hook, and success <=> roll <= probability.
C15_TraceAppendOnly ==
  [][/\ Len(state'.trace_log) >= Len(state.trace_log)
     /\ SubSeq(state'.trace_log, 1, Len(state.trace_log)) = state.trace_log
     /\ Len(SelectSeq(NewTrace, LAMBDA e : e.kind = "fragment_roll")) = FragmentRolls
     /\ Len(SelectSeq(NewTrace, LAMBDA e : e.kind = "proactive_roll")) = ProactiveRolls
     /\ Len(NewTrace) = FragmentRolls + ProactiveRolls
     /\ \A e \in Range(NewTrace) :
          /\ e.success <=> (e.roll <= e.probability)
          /\ e.kind = "fragment_roll" =>
               \E f \in Range(state.fragments_active) :
                 /\ f.fragment_id = e.fragment_id
                 /\ e.probability = Min(f.trigger_state.p_max,
                                        f.trigger_state.p0 + e.exposures * f.trigger_state.dp)
          /\ e.kind = "proactive_roll" =>
               \E i \in 1..Len(content.hooks) :
                 /\ content.hooks[i].hook_id = e.hook_id
                 /\ e.probability = Min(content.hooks[i].p_max,
                                        content.hooks[i].p0 + e.exposures * content.hooks[i].dp)]_vars

\* the second run has begun and the log still holds the rolls of the first
\* run, a proactive roll followed by a fragment roll
C15_Witness ==
  /\ last.op = "day_end"
  /\ state.run_index = 2
  /\ Len(state.trace_log) >= 2
  /\ state.trace_log[1].kind = "proactive_roll"
  /\ \E i \in 2..Len(state.trace_log) : state.trace_log[i].kind = "fragment_roll"

\* C16: select_weighted returns no selection for an empty list, the first
\* item when the total weight is <= 0, and otherwise the first item in list
\* order whose cumulative weight is >= threshold, where
\* threshold = ((seed mod 10000)/10000) * total lies in [0, total); the result
\* is always an element of the list.  The comparisons are multiplied by 10000.
C16_SelectWeighted ==
  (returns # << >> /\ args.op = "select_weighted") =>
    LET items == args.items
        selected == returns[1]
        cumulative == [i \in 1..Len(items) |->
                         SumSeq([j \in 1..i |-> items[j].base_weight])]
        total == IF items = << >> THEN 0 ELSE cumulative[Len(items)]
        threshold == (args.seed % 10000) * total
    IN /\ items = << >> => selected = << >>
       /\ (items # << >> /\ total <= 0) => selected = << items[1] >>
       /\ (items # << >> /\ total > 0) =>
            /\ 0 <= threshold /\ threshold < total * 10000
            /\ \E i \in 1..Len(items) :
                 /\ selected = << items[i] >>
                 /\ cumulative[i] * 10000 >= threshold
                 /\ \A j \in 1..(i - 1) : cumulative[j] * 10000 < threshold
       /\ selected # << >> => selected[1] \in Range(items)

\* three items of weights 0.5, 1.0, 0.5 and a seed of 2500 mod 10000: the
\* threshold is 0.5 and the first item, whose cumulative weight equals it, is
\* selected
C16_Witness ==
  /\ returns # << >>
  /\ args.op = "select_weighted"
  /\ args.seed = 2500
  /\ [i \in 1..Len(args.items) |-> args.items[i].base_weight] = <<50, 100, 50>>
  /\ returns[1] = << args.items[1] >>

\* C17: for 0 <= p0 <= p_max <= 1, dp >= 0 and n2 > n1 >= 0, the probability
\* roll_with_pity computes is min(p_max, p0 + n*dp), it is no smaller at n2
\* than at n1, and it never exceeds p_max.
C17_PityMonotone ==
  (returns # << >> /\ args.op = "roll_with_pity") =>
    LET at_n1 == returns[1][1]
        at_n2 == returns[1][2]
    IN /\ at_n1.probability = Min(args.p_max, args.p0 + args.n1 * args.dp)
       /\ at_n2.probability = Min(args.p_max, args.p0 + args.n2 * args.dp)
       /\ at_n2.probability >= at_n1.probability
       /\ at_n1.probability <= args.p_max
       /\ at_n2.probability <= args.p_max

\* p0 = 0.2, dp = 0.5, p_max = 0.85: the probability is 0.2 with no
\* exposure, 0.7 with one and the ceiling 0.85 with two
C17_Witness ==
  /\ returns # << >>
  /\ args.op = "roll_with_pity"
  /\ args.p0 = 20 /\ args.dp = 50 /\ args.p_max = 85
  /\ args.n1 = 0 /\ args.n2 = 2
  /\ returns[1][1].probability = 20
  /\ returns[1][2].probability = 85

HookMessage(hook_id) ==
  LET hook == content.hooks[CHOOSE i \in 1..Len(content.hooks) :
                              content.hooks[i].hook_id = hook_id]
  IN Message("npc", hook.payload_template.text, "proactive_" \o hook.kind,
             hook.payload_template.options)

\* the successful proactive rolls of the step
Wins == SelectSeq(NewTrace, LAMBDA e : e.kind = "proactive_roll" /\ e.success)

\* C20: the response of every request is the messages of its action followed
\* by the NPC messages of the proactive rolls that succeeded during that
\* request, each once; the action's own messages hold no such message; and
\* pending_npc_messages is empty once the response is built.
C20_QueueFlushed ==
  [][/\ state'.pending_npc_messages = << >>
     /\ last'.response = last'.messages \o [i \in 1..Len(Wins) |-> HookMessage(Wins[i].hook_id)]
     /\ \A i \in 1..Len(last'.messages) :
          last'.messages[i].kind \notin {"proactive_soft", "proactive_hard"}]_vars

\* a chat whose proactive roll succeeds: the chat line, then the message of h1
C20_Witness ==
  /\ last.op = "chat"
  /\ Len(last.messages) = 1
  /\ last.messages[1].kind = "chat"
  /\ Len(last.response) = 2
  /\ last.response[2] = Message("npc", "h1 text", "proactive_soft", <<"reply">>)
  /\ state.pending_npc_messages = << >>

\* C19: a step of a request on one session leaves the state of every other
\* session as it was, while two requests on the same session interleave
\* destructively (the witness below).
C19_SessionsIndependent ==
  [][\A sid \in DOMAIN store :
       store'[sid] # store[sid] =>
         \E r \in Requests : requests'[r] # requests[r] /\ requests[r].sid = sid]_vars

\* session A had one action point and one proactive slot; its two requests
\* both passed the test of ap and both gates of proactive_check: both acted,
\* ap is -1, daily_proactive_count is 2 with a cap of 1 and npc_initiative is
\* -1, while session B holds what its own request left
C19_Witness ==
  /\ \A r \in Requests : requests[r].pc = "done"
  /\ \A r \in Requests : \A i \in 1..Len(requests[r].response) :
       requests[r].response[i].kind # "warning"
  /\ store["A"].resources.ap = -1
  /\ store["A"].caps.daily_proactive_cap = 1
  /\ store["A"].daily_proactive_count = 2
  /\ store["A"].resources.npc_initiative = -1
  /\ store["B"].resources.ap = 0
  /\ store["B"].daily_proactive_count <= 1

\* the active fragments that the call being answered finds eligible and not
\* yet checked at its (day_index, stage_id), as indices of fragments_active
C21_Unchecked ==
  {i \in 1..Len(state.fragments_active) :
     /\ FragmentEligible(state.fragments_active[i], state, last'.location)
     /\ ~AlreadyChecked(state.fragments_active[i].trigger_state, state.day_index,
                        last'.stage_id)}

C21_Score(i) ==
  state.fragments_active[i].salience_score
    + state.fragments_active[i].trigger_state.exposures * 10

\* the ids of the fragments of C21_Unchecked with the highest score
C21_Best ==
  {state.fragments_active[i].fragment_id :
     i \in {i \in C21_Unchecked : \A k \in C21_Unchecked : C21_Score(i) >= C21_Score(k)}}

\* C21: whenever action_select runs fragment_trigger_check with the daily
\* fragment cap not reached and at least one active fragment eligible (its
\* location trigger is the location of the action, it is not consumed, its
\* cooldown is over, and it was not yet checked at the current day and
\* stage), a pity roll is made on the fragment with the highest
\* salience_score + exposures * 0.1 among those fragments.
C21_BestEligibleRolled ==
  [][(/\ last'.op = "action_select"
      /\ calls' = calls + 1
      /\ ~NoStamina(state)
      /\ ~FragmentCapReached(state)
      /\ C21_Unchecked # {})
     => \E j \in 1..Len(NewTrace) :
          /\ NewTrace[j].kind = "fragment_roll"
          /\ NewTrace[j].fragment_id \in C21_Best]_vars

\* the successful proactive rolls of the session, oldest first
C22_Successes ==
  LET Won(e) == e.kind = "proactive_roll" /\ e.success
  IN SelectSeq(state.trace_log, Won)

\* hook_id succeeded since the last completed day_end call
C22_SucceededToday(hook_id) ==
  \E j \in (Len(C22_Successes) - successes_today.proactive + 1)..Len(C22_Successes) :
    C22_Successes[j].hook_id = hook_id

\* the cooldown test of the filter of proactive_check
C22_PassesCooldown(hook_id) ==
  Get(state.proactive_state.hook_cooldowns, hook_id, 0) <= state.day_index

\* C22: a hook's cooldown lasts cooldown_days game days.  After a success the
\* hook is excluded by the cooldown filter until cooldown_days day_end calls
\* have completed, and from then on it passes the filter again, whether or
\* not a run transition that resets day_index to 1 is among those calls, as
\* long as the session has not ended.  The hooks of the content have
\* cooldown_days 0 or 1: one with 0 passes the filter in every state, one
\* with 1 passes it exactly when it has not succeeded since the last
\* completed day_end call.
C22_CooldownLastsGameDays ==
  state.game_phase = RUNNING
    => \A i \in 1..Len(content.hooks) :
         /\ content.hooks[i].cooldown_days = 0
              => C22_PassesCooldown(content.hooks[i].hook_id)
         /\ content.hooks[i].cooldown_days = 1
              => (C22_PassesCooldown(content.hooks[i].hook_id)
                    <=> ~C22_SucceededToday(content.hooks[i].hook_id))

\* what a state between two entry-point calls shows of the phase, the run
\* and the day
C23_Observable ==
  /\ state.game_phase \in {RUNNING, ENDED}
  /\ 1 <= state.run_index /\ state.run_index <= state.max_runs
  /\ state.game_phase = RUNNING
       => 1 <= state.day_index /\ state.day_index <= config.run.days_per_run
  /\ \A i \in 1..Len(last.phases) :
       last.phases[i] \in {RUN_END, FINAL_END} => last.op = "day_end"

\* C23: in every state observable between entry-point calls game_phase is
\* RUNNING or ENDED (RUN_END and FINAL_END are assigned only inside a
\* day_end call), run_index is between 1 and max_runs, phase RUNNING implies
\* that day_index is between 1 and days_per_run, and once the phase is ENDED
\* it is ENDED after every later call.
C23_PhaseRunDay ==
  /\ []C23_Observable
  /\ [][state.game_phase = ENDED => state'.game_phase = ENDED]_vars

\* the session ended after a run transition, and a later day_end call, which
\* runs run_end again, left it ended in its last run
C23_Witness ==
  /\ state.game_phase = ENDED
  /\ state.run_index = 2
  /\ state.max_runs = 2
  /\ last.op = "day_end"
  /\ last.phases = <<RUN_END, FINAL_END, ENDED>>
  /\ day_end_calls = 3
====
